---- MODULE Spec2Model ----
(***************************************************************************)
(* topic-monitor: the monitoring run (scripts/monitor.py), the persisted   *)
(* documents and the alert queue (scripts/config.py) and the queue         *)
(* commands of the delivery agent (scripts/process_alerts.py).             *)
(*                                                                         *)
(* Representation.  A string is a sequence of character codes (naturals),  *)
(* so that the f-string of queue_alert is a concatenation.  A clock        *)
(* reading is a whole number of hours; several calls of datetime.now()     *)
(* may read the same value.  A missing key of a JSON object is NoKey (for  *)
(* a number) or NoStr (for a string).                                      *)
(***************************************************************************)
EXTENDS Integers, Sequences, FiniteSets, TLC

\* ------------------------------------------------------------------ bounds
MaxClock == 1
MaxResults == 2
MaxBatch == 3
MaxQueue == 2
MaxFindings == 2
MaxAge == 2
MaxRuns == 2
MaxWindow == 2

\* ------------------------------------------------------- program constants
DEFAULT_MAX_ALERTS_PER_DAY == 5
DEFAULT_MAX_ALERTS_PER_TOPIC_PER_DAY == 2
DEFAULT_DEDUP_HOURS == 72
HOURLY_HOURS == 1
DAILY_HOURS == 24
WEEKLY_HOURS == 168
DEFAULT_MAX_AGE_HOURS == 168

\* ----------------------------------------------------------------- values
NoKey == -1
NoStr == <<-1>>

\* The URLs the search collaborator may return (character codes >= 1000).
URLS == {<<1001>>, <<1002>>}

\* datetime.isoformat(): the text of a clock reading.
IsoFormat(t) == <<t>>

\* datetime.fromisoformat() accepts exactly the texts isoformat() produces.
IsIsoString(s) == Len(s) = 1 /\ s[1] >= 0 /\ s[1] < 1000

\* datetime.fromisoformat() of an accepted text.
FromIsoFormat(s) == s[1]

\* hashlib.md5(text).hexdigest(): a digest, taken to be collision-free.
Md5Hex(s) == [md5 |-> s]

\* digest[:12]: the first 12 hex characters, taken to be collision-free too.
Hex12(d) == [md5_12 |-> d.md5]

\* hash_url(url): the key of a URL in the deduplication map.
hash_url(url) == Md5Hex(url)

\* dict.get(key, default) on a numeric key.
GetNum(v, default) == IF v = NoKey THEN default ELSE v

\* dict.get(key, "") on a string key.
GetStr(v) == IF v = NoStr THEN <<>> ELSE v

\* ------------------------------------------------------------ configuration
\* config.json: the topics, in file order.
Topics == <<
  [id |-> "t1", frequency |-> "hourly", importance_threshold |-> "high",
   channels |-> <<"telegram", "discord">>],
  [id |-> "t2", frequency |-> "daily", importance_threshold |-> "medium",
   channels |-> <<"telegram">>] >>

TopicIdx == 1..Len(Topics)

TopicIds == {Topics[i].id : i \in TopicIdx}

\* config.json: a settings object that sets every limit.
ExplicitSettings ==
  [max_alerts_per_day |-> 3, max_alerts_per_topic_per_day |-> 2,
   deduplication_window_hours |-> 1]

\* config.json: a settings object that leaves the alert limits to their defaults.
DefaultLimitSettings ==
  [max_alerts_per_day |-> NoKey, max_alerts_per_topic_per_day |-> NoKey,
   deduplication_window_hours |-> 1]

\* ---------------------------------------------------------- state document
EmptyTopicState == [alerts_today |-> NoKey, last_check |-> NoStr,
                    last_results_count |-> NoKey, findings_count |-> NoKey]

\* load_state() when the state file does not exist.
DefaultState == [topics |-> [t \in TopicIds |-> EmptyTopicState],
                 url_hash_map |-> [h \in {hash_url(u) : u \in URLS} |-> NoStr]]

\* ------------------------------------------------------------- alert queue
\* The alert queue file: missing, or a JSON list of alerts.
MissingFile == [kind |-> "missing", data |-> <<>>]

JsonFile(data) == [kind |-> "json", data |-> data]

\* A file that json.load rejects: empty, or cut off in the middle of a write.
CorruptFile == [kind |-> "corrupt", data |-> <<>>]

\* An alert that has no id yet (queue_alert sets it).
NoId == Hex12(Md5Hex(NoStr))

\* queue_alert: the id of an alert, from the url and timestamp it was given.
alert_id(alert) == Hex12(Md5Hex(GetStr(alert.url) \o GetStr(alert.timestamp)))

\* queue_alert as it would be without the check of the existing ids.
queue_alert_always_appends(file, alert, t) ==
  LET queue == IF file.kind = "json" THEN file.data ELSE <<>>
      id == alert_id(alert)
      stamped == [alert EXCEPT !.id = id, !.sent = FALSE,
                               !.timestamp = IF @ = NoStr THEN IsoFormat(t) ELSE @]
  IN [file |-> JsonFile(Append(queue, stamped)), id |-> id]

\* queue_alert as it would be if the id were computed after the timestamp is set.
queue_alert_id_after_stamp(file, alert, t) ==
  LET queue == IF file.kind = "json" THEN file.data ELSE <<>>
      timed == [alert EXCEPT !.timestamp = IF @ = NoStr THEN IsoFormat(t) ELSE @]
      id == alert_id(timed)
      stamped == [timed EXCEPT !.id = id, !.sent = FALSE]
      existing_ids == {queue[i].id : i \in DOMAIN queue}
  IN [file |-> JsonFile(IF id \notin existing_ids THEN Append(queue, stamped) ELSE queue),
      id |-> id]

\* queue_alert as it would be if it put a new alert at the front of the queue.
queue_alert_prepends(file, alert, t) ==
  LET queue == IF file.kind = "json" THEN file.data ELSE <<>>
      id == alert_id(alert)
      stamped == [alert EXCEPT !.id = id, !.sent = FALSE,
                               !.timestamp = IF @ = NoStr THEN IsoFormat(t) ELSE @]
      existing_ids == {queue[i].id : i \in DOMAIN queue}
  IN [file |-> JsonFile(IF id \notin existing_ids THEN <<stamped>> \o queue ELSE queue),
      id |-> id]

\* queue_alert as it would be if an alert whose id is in the queue replaced the
\* entry that has it.
queue_alert_requeues(file, alert, t) ==
  LET queue == IF file.kind = "json" THEN file.data ELSE <<>>
      id == alert_id(alert)
      stamped == [alert EXCEPT !.id = id, !.sent = FALSE,
                               !.timestamp = IF @ = NoStr THEN IsoFormat(t) ELSE @]
      existing_ids == {queue[i].id : i \in DOMAIN queue}
  IN [file |-> JsonFile(IF id \notin existing_ids THEN Append(queue, stamped)
                        ELSE [i \in DOMAIN queue |->
                                IF queue[i].id = id THEN stamped ELSE queue[i]]),
      id |-> id]

\* queue_alert at clock reading t: the queue file after the call and the id it
\* returns.
queue_alert(file, alert, t) ==
  LET queue == IF file.kind = "json" THEN file.data ELSE <<>>
      id == alert_id(alert)
      stamped == [alert EXCEPT !.id = id, !.sent = FALSE,
                               !.timestamp = IF @ = NoStr THEN IsoFormat(t) ELSE @]
      existing_ids == {queue[i].id : i \in DOMAIN queue}
  IN [file |-> JsonFile(IF id \notin existing_ids THEN Append(queue, stamped) ELSE queue),
      id |-> id]

\* get_pending_alerts as it would be without the filter on sent.
get_all_alerts(file) ==
  IF file.kind # "json" THEN <<>> ELSE file.data

\* get_pending_alerts: the unsent entries, in queue order.
get_pending_alerts(file) ==
  IF file.kind # "json" THEN <<>>
  ELSE SelectSeq(file.data, LAMBDA a : ~a.sent)

\* mark_alert_sent as it would be if the loop marked every entry.
MarkEvery(queue, id, t) ==
  [i \in DOMAIN queue |-> [queue[i] EXCEPT !.sent = TRUE, !.sent_at = IsoFormat(t)]]

\* mark_alert_sent: the loop marks the first entry with the id, then breaks.
MarkFirst(queue, id, t) ==
  LET hits == {i \in DOMAIN queue : queue[i].id = id}
  IN IF hits = {} THEN queue
     ELSE LET i == CHOOSE j \in hits : \A k \in hits : j <= k
          IN [queue EXCEPT ![i].sent = TRUE, ![i].sent_at = IsoFormat(t)]

\* mark_alert_sent: the queue file after the call at clock reading t.
mark_alert_sent(file, id, t) ==
  IF file.kind # "json" THEN file
  ELSE JsonFile(MarkFirst(file.data, id, t))

\* clear_old_alerts: whether the loop keeps an entry, for cutoff = now - max_age.
KeptByClear(alert, cutoff) ==
  IF IsIsoString(GetStr(alert.timestamp))
  THEN FromIsoFormat(alert.timestamp) > cutoff
  ELSE TRUE

\* clear_old_alerts: the queue file after the call at clock reading t.
clear_old_alerts(file, max_age_hours, t) ==
  IF file.kind # "json" THEN file
  ELSE JsonFile(SelectSeq(file.data, LAMBDA a : KeptByClear(a, t - max_age_hours)))

\* mark_all_sent: mark_alert_sent for each id of a list, in order.
RECURSIVE MarkEach(_, _, _)
MarkEach(file, ids, t) ==
  IF ids = <<>> THEN file
  ELSE MarkEach(mark_alert_sent(file, Head(ids), t), Tail(ids), t)

\* The ids of a list of alerts, in order.
IdsOf(alerts) == [i \in DOMAIN alerts |-> alerts[i].id]

\* mark_all_sent: the given ids when there are any, else every pending alert.
mark_all_sent(file, alert_ids, t) ==
  IF alert_ids # <<>> THEN MarkEach(file, alert_ids, t)
  ELSE MarkEach(file, IdsOf(get_pending_alerts(file)), t)

\* ---------------------------------------------------------------- findings
\* strftime("%Y-%m-%d") of a clock reading: the day it falls in.
DateStr(t) == t \div DAILY_HOURS

Dates == {DateStr(t) : t \in 0..MaxClock}

\* save_finding as it would be if it wrote only the new finding.
save_finding_overwrites(dir, topic_id, date_str, finding) ==
  [dir EXCEPT ![<<topic_id, date_str>>] = <<finding>>]

\* save_finding: the bucket (missing file = empty list) with the finding appended.
save_finding(dir, topic_id, date_str, finding) ==
  [dir EXCEPT ![<<topic_id, date_str>>] = Append(@, finding)]

\* ----------------------------------------------------------- monitor steps
\* is_duplicate raises ValueError: the stored timestamp is not ISO text.
is_duplicate_raises(url, st) ==
  LET last_seen_str == st.url_hash_map[hash_url(url)]
  IN last_seen_str # NoStr /\ ~IsIsoString(last_seen_str)

\* is_duplicate as it would be with a window closed at its far end.
is_duplicate_inclusive(url, st, dedup_hours, t) ==
  LET last_seen_str == st.url_hash_map[hash_url(url)]
  IN IF last_seen_str = NoStr THEN FALSE
     ELSE t - FromIsoFormat(last_seen_str) <= dedup_hours

\* is_duplicate: seen, and less than dedup_hours ago at clock reading t.
is_duplicate(url, st, dedup_hours, t) ==
  LET last_seen_str == st.url_hash_map[hash_url(url)]
  IN IF last_seen_str = NoStr THEN FALSE
     ELSE t - FromIsoFormat(last_seen_str) < dedup_hours

\* mark_as_seen as it would be if it recorded nothing.
mark_as_seen_forgets(url, st, t) == st

\* mark_as_seen: the map entry is overwritten with the current time.
mark_as_seen(url, st, t) ==
  [st EXCEPT !.url_hash_map[hash_url(url)] = IsoFormat(t)]

\* should_check_topic: the interval of a frequency, NoKey for an unknown one.
FrequencyHours(frequency) ==
  CASE frequency = "hourly" -> HOURLY_HOURS
    [] frequency = "daily" -> DAILY_HOURS
    [] frequency = "weekly" -> WEEKLY_HOURS
    [] OTHER -> NoKey

\* should_check_topic as it would be if the interval had to be exceeded.
should_check_topic_late(topic, st, force, t) ==
  IF force THEN TRUE
  ELSE LET last_check_str == st.topics[topic.id].last_check
           frequency == IF topic.frequency = "" THEN "daily" ELSE topic.frequency
       IN IF GetStr(last_check_str) = <<>> THEN TRUE
          ELSE IF FrequencyHours(frequency) = NoKey THEN FALSE
          ELSE t - FromIsoFormat(last_check_str) > FrequencyHours(frequency)

\* should_check_topic at clock reading t; a topic without the key has the
\* frequency "".
should_check_topic(topic, st, force, t) ==
  IF force THEN TRUE
  ELSE LET last_check_str == st.topics[topic.id].last_check
           frequency == IF topic.frequency = "" THEN "daily" ELSE topic.frequency
       IN IF GetStr(last_check_str) = <<>> THEN TRUE
          ELSE IF FrequencyHours(frequency) = NoKey THEN FALSE
          ELSE t - FromIsoFormat(last_check_str) >= FrequencyHours(frequency)

\* check_rate_limits: the sum of alerts_today over the topics of the state.
RECURSIVE SumAlerts(_, _)
SumAlerts(st, ids) ==
  IF ids = {} THEN 0
  ELSE LET id == CHOOSE x \in ids : TRUE
       IN GetNum(st.topics[id].alerts_today, 0) + SumAlerts(st, ids \ {id})

total_alerts_today(st) == SumAlerts(st, TopicIds)

\* check_rate_limits as it would be if a limit had to be exceeded, not met.
check_rate_limits_exceeding(topic, st, stg) ==
  LET max_per_day == GetNum(stg.max_alerts_per_day, DEFAULT_MAX_ALERTS_PER_DAY)
      max_per_topic_per_day ==
        GetNum(stg.max_alerts_per_topic_per_day, DEFAULT_MAX_ALERTS_PER_TOPIC_PER_DAY)
      alerts_today == GetNum(st.topics[topic.id].alerts_today, 0)
  IN IF alerts_today > max_per_topic_per_day THEN FALSE
     ELSE IF total_alerts_today(st) > max_per_day THEN FALSE
     ELSE TRUE

\* check_rate_limits as it would be without the global limit.
check_rate_limits_topic_only(topic, st, stg) ==
  LET max_per_topic_per_day ==
        GetNum(stg.max_alerts_per_topic_per_day, DEFAULT_MAX_ALERTS_PER_TOPIC_PER_DAY)
      alerts_today == GetNum(st.topics[topic.id].alerts_today, 0)
  IN IF alerts_today >= max_per_topic_per_day THEN FALSE ELSE TRUE

\* check_rate_limits: the topic limit first, then the global one.
check_rate_limits(topic, st, stg) ==
  LET max_per_day == GetNum(stg.max_alerts_per_day, DEFAULT_MAX_ALERTS_PER_DAY)
      max_per_topic_per_day ==
        GetNum(stg.max_alerts_per_topic_per_day, DEFAULT_MAX_ALERTS_PER_TOPIC_PER_DAY)
      alerts_today == GetNum(st.topics[topic.id].alerts_today, 0)
  IN IF alerts_today >= max_per_topic_per_day THEN FALSE
     ELSE IF total_alerts_today(st) >= max_per_day THEN FALSE
     ELSE TRUE

\* send_alert: the alert built for one channel at clock reading t.
alert_data(topic, url, channel, t) ==
  [id |-> NoId, url |-> url, timestamp |-> IsoFormat(t),
   channel |-> channel, topic_id |-> topic.id, sent |-> FALSE, sent_at |-> NoStr]

\* send_alert: queue_alert for the first k channels; reads[i] is the clock
\* reading of the i-th datetime.now().
RECURSIVE QueueChannels(_, _, _, _, _)
QueueChannels(file, topic, url, k, reads) ==
  IF k = 0 THEN file
  ELSE queue_alert(QueueChannels(file, topic, url, k - 1, reads),
                   alert_data(topic, url, topic.channels[k], reads[k]), reads[k]).file

\* send_alert as it would be if it queued in a dry run too.
send_alert_in_dry_run(file, topic, url, dry, reads) ==
  QueueChannels(file, topic, url, Len(topic.channels), reads)

\* send_alert: in a dry run it prints and returns before queueing.
send_alert(file, topic, url, dry, reads) ==
  IF dry THEN file
  ELSE QueueChannels(file, topic, url, Len(topic.channels), reads)

\* The order of the priorities.
Rank(priority) ==
  CASE priority = "high" -> 3
    [] priority = "medium" -> 2
    [] OTHER -> 1

\* score_result as it would be if it returned the rating of the content.
score_result_ignores_threshold(rating, topic) == rating

\* importance_scorer.score_result, the priority it returns: the rating of the
\* content, demoted to "low" when it is strictly below the topic's
\* importance_threshold.
score_result(rating, topic) ==
  IF Rank(rating) < Rank(topic.importance_threshold) THEN "low" ELSE rating

\* monitor_topic: the alert counter of the topic, incremented.
IncrementAlerts(st, topic_id) ==
  [st EXCEPT !.topics[topic_id].alerts_today = GetNum(@, 0) + 1]

\* The checkpoint as it would be if it reset alerts_today on a new day.
UpdateTopicStateResetsDaily(st, topic_id, n_results, n_medium, t) ==
  [st EXCEPT !.topics[topic_id].last_check = IsoFormat(t),
             !.topics[topic_id].last_results_count = n_results,
             !.topics[topic_id].findings_count = GetNum(@, 0) + n_medium,
             !.topics[topic_id].alerts_today =
                IF st.topics[topic_id].last_check # NoStr
                   /\ FromIsoFormat(st.topics[topic_id].last_check) \div DAILY_HOURS
                        # t \div DAILY_HOURS
                THEN 0 ELSE @]

\* monitor_topic: the checkpoint of the topic at clock reading t.
UpdateTopicState(st, topic_id, n_results, n_medium, t) ==
  [st EXCEPT !.topics[topic_id].last_check = IsoFormat(t),
             !.topics[topic_id].last_results_count = n_results,
             !.topics[topic_id].findings_count = GetNum(@, 0) + n_medium]

\* monitor_topic: save_finding for the first k medium results, in order.
RECURSIVE SaveFindings(_, _, _, _, _)
SaveFindings(dir, topic_id, date_str, medium, k) ==
  IF k = 0 THEN dir
  ELSE save_finding(SaveFindings(dir, topic_id, date_str, medium, k - 1),
                    topic_id, date_str, medium[k])

\* main, the body of the loop over the topics: the topic passes the filters
\* of --topic and --frequency (topic.get("frequency") compared as it is, "" for
\* a topic without the key) and is due.
Selected(topic, st, arg_topic, arg_frequency, force, t) ==
  /\ (arg_topic = "" \/ topic.id = arg_topic)
  /\ (arg_frequency = "" \/ topic.frequency = arg_frequency)
  /\ should_check_topic(topic, st, force, t)

\* main: the topics to check, in configuration order.
SelectTopics(st, arg_topic, arg_frequency, force, t) ==
  SelectSeq([i \in TopicIdx |-> i],
            LAMBDA i : Selected(Topics[i], st, arg_topic, arg_frequency, force, t))

\* ------------------------------------------------------------------- state
VARIABLES
  now,              \* the clock, in hours
  settings,         \* config.json: the settings object
  queueFile,        \* alerts-queue.json
  stateFile,        \* topic-monitor-state.json
  findingsDir,      \* findings/<date>_<topic>.json, by <<topic, date>>
  pc,               \* where the monitoring run stands ("idle": no run)
  dry_run,          \* main: args.dry_run
  state,            \* the state document in memory
  topics_to_check,  \* main: the topics still to monitor (the head is the current one)
  search,           \* monitor_topic: how search_topic returned for the current topic
  nresults,         \* monitor_topic: the results examined so far
  high_priority,    \* monitor_topic: the URLs of the high-priority results
  medium_priority,  \* monitor_topic: the URLs of the medium-priority results
  emitted,          \* history: ids of queue entries output_json_for_agent has emitted
  agent,            \* history: the delivery agent's standing
  issued,           \* history: per (url, timestamp) given to queue_alert, the ids returned
  lastOp,           \* history: the last queue command
  saves,            \* history: the calls of save_state in this run
  pre,              \* history: the persisted documents when this run started
  selected,         \* history: topics_to_check as selected by this run
  entered,          \* history: the topics monitor_topic was called for in this run
  raised,           \* history: the topics whose monitor_topic raised in this run
  last,             \* history: the last result examined by the scan loop
  rl,               \* history: the last check_rate_limits call
  runs,             \* history: the monitoring runs started so far
  seenAt,           \* history: per URL, the clock reading of its last mark_as_seen
  dupQuery,         \* history: the last is_duplicate call and its result
  dueQuery,         \* history: the last should_check_topic call and its result
  dropped,          \* history: per URL, its last refusal by check_rate_limits
  procs,            \* overlapping invocations: per process, the operation under way
  disposed          \* history: per URL, its last bucketing in a run that is not dry

vars == <<now, settings, queueFile, stateFile, findingsDir, pc, dry_run, state,
          topics_to_check, search, nresults, high_priority, medium_priority, emitted,
          agent, issued, lastOp, saves, pre, selected, entered, raised, last, rl,
          runs, seenAt, dupQuery, dueQuery, dropped, procs, disposed>>

persisted == <<queueFile, stateFile, findingsDir>>

locals == <<dry_run, state, topics_to_check, search, nresults, high_priority,
            medium_priority>>

runHistory == <<saves, pre, selected, entered, raised, last, rl>>

queueHistory == <<emitted, agent, issued, lastOp>>

dedupHistory == <<seenAt, dupQuery, dueQuery, dropped>>

NoLast == [url |-> NoStr, rating |-> "", seen_within |-> FALSE, bucketed |-> FALSE]

NoRl == [topic_id |-> "", alerts_today |-> NoKey, total |-> NoKey, permitted |-> FALSE]

NoQuery == [url |-> NoStr, window |-> NoKey, at |-> NoKey, seen |-> NoKey,
            stored |-> NoStr, raised |-> FALSE, result |-> FALSE]

\* The processes that may run at the same time.
Procs == {1, 2}

\* A process with no operation under way.
NoProc == [op |-> "", url |-> NoStr, id |-> NoId, phase |-> "idle",
           snapshot |-> MissingFile, stale |-> FALSE, order |-> 0, at |-> NoKey]

\* History: the URL was never put in a bucket.
NoDisposal == [at |-> NoKey, topic_id |-> ""]

\* History: the URL was never refused.
NoDrop == [marked |-> NoKey, run |-> NoKey]

NoDue == [frequency |-> "", force |-> FALSE, last_check |-> NoStr, at |-> NoKey,
          result |-> FALSE, arg_frequency |-> "", selected |-> FALSE]

NoOp == [op |-> "", url |-> NoStr, ts |-> NoStr, id |-> NoId, hours |-> NoKey,
         ret |-> <<>>]

\* A text that datetime.fromisoformat() rejects.
Garbled == <<-2>>

\* The timestamps a caller may give queue_alert: none, a clock reading, a text
\* that is no timestamp.
Timestamps == {NoStr, Garbled} \cup {IsoFormat(t) : t \in 0..MaxClock}

NoCalls == [ids |-> {}, calls |-> 0]

MissingState == [kind |-> "missing", data |-> DefaultState]

\* load_state: json.load of a file that does not parse raises, and nothing
\* catches it.
load_state_raises(file) == file.kind = "corrupt"

\* load_state: the document of the file, or the default one when there is none.
load_state(file) == IF file.kind = "json" THEN file.data ELSE DefaultState

InitWith(stg) ==
  /\ now = 0
  /\ settings = stg
  /\ queueFile = MissingFile
  /\ stateFile = MissingState
  /\ findingsDir = [b \in TopicIds \X Dates |-> <<>>]
  /\ pc = "idle"
  /\ dry_run = FALSE
  /\ state = DefaultState
  /\ topics_to_check = <<>>
  /\ search = ""
  /\ nresults = 0
  /\ high_priority = <<>>
  /\ medium_priority = <<>>
  /\ emitted = {}
  /\ agent = "none"
  /\ issued = [c \in URLS \X Timestamps |-> NoCalls]
  /\ lastOp = NoOp
  /\ saves = 0
  /\ pre = <<>>
  /\ selected = <<>>
  /\ entered = <<>>
  /\ raised = {}
  /\ last = NoLast
  /\ rl = NoRl
  /\ runs = 0
  /\ seenAt = [u \in URLS |-> NoKey]
  /\ dupQuery = NoQuery
  /\ dueQuery = NoDue
  /\ dropped = [u \in URLS |-> NoDrop]
  /\ procs = [p \in Procs |-> NoProc]
  /\ disposed = [u \in URLS |-> NoDisposal]

Init == InitWith(ExplicitSettings)

\* Time passes between two invocations.
Tick ==
  /\ now < MaxClock
  /\ pc = "idle"
  /\ now' = now + 1
  /\ UNCHANGED <<settings, persisted, pc, locals, runHistory, queueHistory, runs,
                 dedupHistory, procs, disposed>>

\* Time passes while monitor_topic runs.
TickInRun ==
  /\ now < MaxClock
  /\ pc \in {"scan", "dispose"}
  /\ now' = now + 1
  /\ UNCHANGED <<settings, persisted, pc, locals, runHistory, queueHistory, runs,
                 dedupHistory, procs, disposed>>

\* ---------------------------------------------------------- queue commands
QueueIds(file) == {file.data[i].id : i \in DOMAIN file.data}

\* History: the calls of queue_alert whose entries clear_old_alerts has purged
\* are forgotten.
Forget(iss, file) ==
  [c \in DOMAIN iss |-> IF iss[c].ids \cap QueueIds(file) = {} THEN NoCalls ELSE iss[c]]

\* config.queue_alert called with an alert that has a timestamp or none; the
\* call returns alert_id(alert).
QueueAlertCall(url, ts) ==
  /\ pc = "idle"
  /\ LET alert == [id |-> NoId, url |-> url, timestamp |-> ts, channel |-> "telegram",
                   topic_id |-> "none", sent |-> FALSE, sent_at |-> NoStr]
         call == queue_alert(queueFile, alert, now)
     IN /\ Len(call.file.data) <= MaxQueue
        /\ queueFile' = call.file
        /\ issued' = [issued EXCEPT ![<<url, ts>>] =
                        [ids |-> @.ids \cup {call.id},
                         calls |-> IF @.calls < 2 THEN @.calls + 1 ELSE @.calls]]
  /\ lastOp' = [NoOp EXCEPT !.op = "queue_alert", !.url = url, !.ts = ts]
  /\ UNCHANGED <<now, settings, stateFile, findingsDir, pc, locals, runHistory,
                 emitted, agent, runs, dedupHistory, procs, disposed>>

\* process_alerts.py --json: the pending alerts are emitted for delivery.
OutputJsonForAgent ==
  /\ pc = "idle"
  /\ LET alerts == get_pending_alerts(queueFile)
     IN /\ emitted' = emitted \cup {alerts[i].id : i \in DOMAIN alerts}
        /\ agent' = IF alerts # <<>> /\ agent = "none" THEN "emitted" ELSE agent
        /\ lastOp' = [NoOp EXCEPT !.op = "output_json_for_agent",
                                  !.ret = IdsOf(alerts)]
  /\ UNCHANGED <<now, settings, persisted, pc, locals, runHistory, issued, runs,
                 dedupHistory, procs, disposed>>

\* process_alerts.py --mark-sent ID: the agent confirms one delivery.
MarkSentCall(id) ==
  /\ pc = "idle"
  /\ queueFile' = mark_all_sent(queueFile, <<id>>, now)
  /\ agent' = IF agent = "emitted" /\ id \in emitted THEN agent ELSE "violated"
  /\ lastOp' = [NoOp EXCEPT !.op = "mark_alert_sent", !.id = id]
  /\ UNCHANGED <<now, settings, stateFile, findingsDir, pc, locals, runHistory,
                 emitted, issued, runs, dedupHistory, procs, disposed>>

\* process_alerts.py --mark-sent: no ids, every pending alert is marked.
MarkAllSentCall ==
  /\ pc = "idle"
  /\ queueFile' = mark_all_sent(queueFile, <<>>, now)
  /\ agent' = IF agent = "emitted" THEN "none" ELSE "violated"
  /\ lastOp' = [NoOp EXCEPT !.op = "mark_all_sent"]
  /\ UNCHANGED <<now, settings, stateFile, findingsDir, pc, locals, runHistory,
                 emitted, issued, runs, dedupHistory, procs, disposed>>

\* process_alerts.py --clear-old HOURS.
ClearOldCall(hours) ==
  /\ pc = "idle"
  /\ queueFile' = clear_old_alerts(queueFile, hours, now)
  /\ emitted' = emitted \cap QueueIds(queueFile')
  /\ issued' = Forget(issued, queueFile')
  /\ lastOp' = [NoOp EXCEPT !.op = "clear_old_alerts", !.hours = hours]
  /\ UNCHANGED <<now, settings, stateFile, findingsDir, pc, locals, runHistory,
                 agent, runs, dedupHistory, procs, disposed>>

\* A queue command (queue_alert, or mark_alert_sent or clear_old_alerts on an
\* existing file) is interrupted, or its json.dump fails, after open(..., 'w')
\* has truncated the file and before the document is written out.
QueueWriteInterrupted ==
  /\ pc = "idle"
  /\ queueFile' = CorruptFile
  /\ emitted' = {}
  /\ issued' = Forget(issued, queueFile')
  /\ lastOp' = [NoOp EXCEPT !.op = "interrupted"]
  /\ UNCHANGED <<now, settings, stateFile, findingsDir, pc, locals, runHistory,
                 agent, runs, dedupHistory, procs, disposed>>

\* ------------------------------------------------ overlapping invocations
\* Loaded as it would be if the file were locked from the read to the write.
LoadedUnderLock(file, snapshot) == file

\* The document an operation modifies and writes back: the one it loaded,
\* whatever the file holds by the time it writes.
Loaded(file, snapshot) == snapshot

\* The topic whose run a process makes, and the channel of its alerts.
ProcTopic == Topics[2]

\* queue_alert by process p, up to json.load: the alert was built by send_alert
\* at this clock reading, the queue file is read.
BeginQueueAlert(p, url) ==
  /\ pc = "idle"
  /\ procs[p].phase = "idle"
  /\ Len(queueFile.data) < MaxQueue
  /\ procs' = [procs EXCEPT ![p] =
       [NoProc EXCEPT !.op = "queue_alert", !.url = url,
                      !.id = alert_id(alert_data(ProcTopic, url, ProcTopic.channels[1], now)),
                      !.phase = "read", !.snapshot = queueFile, !.at = now]]
  /\ UNCHANGED <<now, settings, persisted, pc, locals, runHistory, queueHistory, runs,
                 dedupHistory, disposed>>

\* mark_alert_sent by process p, up to json.load, for an id of the queue.
BeginMarkSent(p, id) ==
  /\ pc = "idle"
  /\ procs[p].phase = "idle"
  /\ queueFile.kind = "json"
  /\ procs' = [procs EXCEPT ![p] =
       [NoProc EXCEPT !.op = "mark_alert_sent", !.id = id, !.phase = "read",
                      !.snapshot = queueFile, !.at = now]]
  /\ UNCHANGED <<now, settings, persisted, pc, locals, runHistory, queueHistory, runs,
                 dedupHistory, disposed>>

\* A monitoring run by process p, up to load_state; the run will mark one URL
\* seen and count one alert for its topic.
BeginRun(p, url) ==
  /\ pc = "idle"
  /\ procs[p].phase = "idle"
  /\ ~load_state_raises(stateFile)
  /\ runs < MaxRuns
  /\ runs' = runs + 1
  /\ procs' = [procs EXCEPT ![p] =
       [NoProc EXCEPT !.op = "run", !.url = url, !.phase = "read",
                      !.snapshot = stateFile, !.at = now]]
  /\ UNCHANGED <<now, settings, persisted, pc, locals, runHistory, queueHistory,
                 dedupHistory, disposed>>

\* The file an operation reads and writes.
FileOf(op) == IF op = "run" THEN "state" ELSE "queue"

\* Process p writes its document back (json.dump); an operation of another
\* process that has read the same file and not yet written now holds a
\* document that is out of date.
FinishWrite(p) ==
  /\ pc = "idle"
  /\ procs[p].phase = "read"
  /\ LET me == procs[p]
         done == {q \in Procs : procs[q].phase = "done"}
     IN /\ CASE me.op = "queue_alert" ->
                  /\ queueFile' = queue_alert(Loaded(queueFile, me.snapshot),
                                     alert_data(ProcTopic, me.url, ProcTopic.channels[1], me.at),
                                     me.at).file
                  /\ UNCHANGED stateFile
             [] me.op = "mark_alert_sent" ->
                  /\ queueFile' = mark_alert_sent(Loaded(queueFile, me.snapshot), me.id, now)
                  /\ UNCHANGED stateFile
             [] OTHER ->
                  /\ stateFile' =
                       [kind |-> "json",
                        data |-> IncrementAlerts(
                                   mark_as_seen(me.url, load_state(Loaded(stateFile, me.snapshot)),
                                                me.at),
                                   ProcTopic.id)]
                  /\ UNCHANGED queueFile
        /\ procs' = [q \in Procs |->
             IF q = p THEN [me EXCEPT !.phase = "done", !.order = Cardinality(done) + 1]
             ELSE IF procs[q].phase = "read" /\ FileOf(procs[q].op) = FileOf(me.op)
                  THEN [procs[q] EXCEPT !.stale = TRUE]
                  ELSE procs[q]]
  /\ UNCHANGED <<now, settings, findingsDir, pc, locals, runHistory, queueHistory, runs,
                 dedupHistory, disposed>>

\* Both processes have ended; two more may start.
ProcsEnd ==
  /\ pc = "idle"
  /\ \A p \in Procs : procs[p].phase = "done"
  /\ procs' = [p \in Procs |-> NoProc]
  /\ UNCHANGED <<now, settings, persisted, pc, locals, runHistory, queueHistory, runs,
                 dedupHistory, disposed>>

\* ------------------------------------------------- the deduplication filter
\* mark_as_seen on the state document in memory.
MarkAsSeenCall(url) ==
  /\ pc = "idle"
  /\ state' = mark_as_seen(url, state, now)
  /\ seenAt' = [seenAt EXCEPT ![url] = now]
  /\ UNCHANGED <<now, settings, persisted, pc, dry_run, topics_to_check, search,
                 nresults, high_priority, medium_priority, runHistory, queueHistory,
                 runs, dupQuery, dueQuery, dropped, procs, disposed>>

\* is_duplicate on the state document in memory, for a window of w hours.
IsDuplicateCall(url, w) ==
  /\ pc = "idle"
  /\ ~is_duplicate_raises(url, state)
  /\ dupQuery' = [url |-> url, window |-> w, at |-> now, seen |-> seenAt[url],
                  stored |-> state.url_hash_map[hash_url(url)], raised |-> FALSE,
                  result |-> is_duplicate(url, state, w, now)]
  /\ UNCHANGED <<now, settings, persisted, pc, locals, runHistory, queueHistory,
                 runs, seenAt, dueQuery, dropped, procs, disposed>>

\* is_duplicate on a state document whose entry for the url is not ISO text:
\* datetime.fromisoformat raises ValueError and no value is returned.
IsDuplicateRaisesCall(url, w) ==
  /\ pc = "idle"
  /\ is_duplicate_raises(url, state)
  /\ dupQuery' = [url |-> url, window |-> w, at |-> now, seen |-> seenAt[url],
                  stored |-> state.url_hash_map[hash_url(url)], raised |-> TRUE,
                  result |-> FALSE]
  /\ UNCHANGED <<now, settings, persisted, pc, locals, runHistory, queueHistory,
                 runs, seenAt, dueQuery, dropped, procs, disposed>>

\* The state document was loaded from a file in which the entry of the url is
\* text that is not an ISO timestamp (load_state returns what the file holds).
LoadMalformedEntry(url) ==
  /\ pc = "idle"
  /\ state.url_hash_map[hash_url(url)] # Garbled
  /\ state' = [state EXCEPT !.url_hash_map[hash_url(url)] = Garbled]
  /\ seenAt' = [seenAt EXCEPT ![url] = NoKey]
  /\ UNCHANGED <<now, settings, persisted, pc, dry_run, topics_to_check, search,
                 nresults, high_priority, medium_priority, runHistory, queueHistory,
                 runs, dupQuery, dueQuery, dropped, procs, disposed>>

\* ------------------------------------------------------------ the due check
\* The clock readings at which the intervals of the frequencies end, and the
\* hour before.
DuePoints == {HOURLY_HOURS, DAILY_HOURS - 1, DAILY_HOURS, WEEKLY_HOURS - 1,
              WEEKLY_HOURS}

\* Time passes, up to one of the DuePoints.
Elapse(t) ==
  /\ pc = "idle"
  /\ t > now
  /\ now' = t
  /\ UNCHANGED <<settings, persisted, pc, locals, runHistory, queueHistory, runs,
                 dedupHistory, procs, disposed>>

\* monitor_topic's checkpoint of a topic, on the state document in memory.
CheckpointCall(topic_id) ==
  /\ pc = "idle"
  /\ state' = UpdateTopicState(state, topic_id, 0, 0, now)
  /\ UNCHANGED <<now, settings, persisted, pc, dry_run, topics_to_check, search,
                 nresults, high_priority, medium_priority, runHistory, queueHistory,
                 runs, dedupHistory, procs, disposed>>

\* should_check_topic on the state document in memory, for a topic of this id
\* and frequency.
ShouldCheckCall(topic_id, frequency, force) ==
  /\ pc = "idle"
  /\ LET topic == [Topics[1] EXCEPT !.id = topic_id, !.frequency = frequency]
     IN dueQuery' = [NoDue EXCEPT !.frequency = frequency, !.force = force,
                       !.last_check = state.topics[topic_id].last_check, !.at = now,
                       !.result = should_check_topic(topic, state, force, now)]
  /\ UNCHANGED <<now, settings, persisted, pc, locals, runHistory, queueHistory,
                 runs, seenAt, dupQuery, dropped, procs, disposed>>

\* main's selection, on the state document in memory, of a topic of this id
\* whose frequency key is absent ("") or has this value, in a run started with
\* --frequency arg_frequency ("" when the option is not given).
SelectCall(topic_id, frequency, arg_frequency, force) ==
  /\ pc = "idle"
  /\ LET topic == [Topics[1] EXCEPT !.id = topic_id, !.frequency = frequency]
     IN dueQuery' = [frequency |-> frequency, force |-> force,
                     last_check |-> state.topics[topic_id].last_check, at |-> now,
                     result |-> should_check_topic(topic, state, force, now),
                     arg_frequency |-> arg_frequency,
                     selected |-> Selected(topic, state, "", arg_frequency, force, now)]
  /\ UNCHANGED <<now, settings, persisted, pc, locals, runHistory, queueHistory,
                 runs, seenAt, dupQuery, dropped, procs, disposed>>

\* ------------------------------------------------------- the monitoring run
dedup_hours == GetNum(settings.deduplication_window_hours, DEFAULT_DEDUP_HOURS)

\* The findings saved so far, over all buckets.
RECURSIVE CountFindings(_, _)
CountFindings(dir, keys) ==
  IF keys = {} THEN 0
  ELSE LET b == CHOOSE x \in keys : TRUE
       IN Len(dir[b]) + CountFindings(dir, keys \ {b})

\* History: the URL has a stored time of sighting less than w hours before t.
SeenWithin(url, st, w, t) ==
  \E seen \in 0..t : /\ st.url_hash_map[hash_url(url)] = IsoFormat(seen)
                     /\ t < seen + w

ResetLocals ==
  /\ dry_run' = FALSE
  /\ state' = DefaultState
  /\ topics_to_check' = <<>>
  /\ search' = ""
  /\ nresults' = 0
  /\ high_priority' = <<>>
  /\ medium_priority' = <<>>

\* main, up to the loop over topics_to_check: the state is loaded and the
\* topics are selected (with none to check the run exits and writes nothing).
Main(dry, force, arg_topic, arg_frequency) ==
  /\ pc = "idle"
  /\ ~load_state_raises(stateFile)
  /\ LET st == load_state(stateFile)
         sel == SelectTopics(st, arg_topic, arg_frequency, force, now)
     IN /\ sel # <<>>
        /\ state' = st
        /\ topics_to_check' = sel
        /\ selected' = sel
  /\ dry_run' = dry
  /\ pc' = "loop"
  /\ pre' = persisted
  /\ saves' = 0
  /\ entered' = <<>>
  /\ raised' = {}
  /\ runs < MaxRuns
  /\ runs' = runs + 1
  /\ UNCHANGED <<now, settings, persisted, search, nresults, high_priority,
                 medium_priority, last, rl, queueHistory, dedupHistory, procs, disposed>>

\* How search_topic returns: "results", the list of the search's JSON output;
\* "failed", the return at the end after a timeout, a non-zero exit, output
\* that does not parse or a missing script (no result, or a mock one in a dry
\* run); "not_a_list", the "results" member of the output when it is no list of
\* objects.  "empty" stands for "results" once the list proved empty.
SearchOutcomes == {"results", "failed", "not_a_list"}

\* search_topic: the mock result of a dry run.
MockUrl == CHOOSE u \in URLS : TRUE

\* EnterTopic as it would be if each topic had a deduplication map of its own.
EnterTopicOwnMap(outcome) ==
  /\ pc = "loop"
  /\ topics_to_check # <<>>
  /\ pc' = "scan"
  /\ entered' = Append(entered, Head(topics_to_check))
  /\ search' = outcome
  /\ state' = [state EXCEPT !.url_hash_map = DefaultState.url_hash_map]
  /\ nresults' = 0
  /\ high_priority' = <<>>
  /\ medium_priority' = <<>>
  /\ last' = NoLast
  /\ rl' = NoRl
  /\ UNCHANGED <<now, settings, persisted, dry_run, topics_to_check, saves,
                 pre, selected, raised, queueHistory, runs, dedupHistory, procs, disposed>>

\* monitor_topic is called for the next topic; search_topic has returned.
EnterTopic(outcome) ==
  /\ pc = "loop"
  /\ topics_to_check # <<>>
  /\ pc' = "scan"
  /\ entered' = Append(entered, Head(topics_to_check))
  /\ search' = outcome
  /\ nresults' = 0
  /\ high_priority' = <<>>
  /\ medium_priority' = <<>>
  /\ last' = NoLast
  /\ rl' = NoRl
  /\ UNCHANGED <<now, settings, persisted, dry_run, state, topics_to_check, saves,
                 pre, selected, raised, queueHistory, runs, dedupHistory, procs, disposed>>

\* monitor_topic: the loop over results has a next result with this url.
HasNext(url, cap) ==
  \/ search = "results" /\ nresults < cap
  \/ search = "failed" /\ dry_run /\ nresults = 0 /\ url = MockUrl

\* The loop over results as it would be if mark_as_seen were called only for a
\* result that was put in a bucket.
ScanResultMarksBucketed(url, rating, cap) ==
  /\ pc = "scan"
  /\ HasNext(url, cap)
  /\ ~is_duplicate_raises(url, state)
  /\ nresults' = nresults + 1
  /\ LET priority == score_result(rating, Topics[Head(topics_to_check)])
     IN /\ priority = "medium" =>
             CountFindings(findingsDir, DOMAIN findingsDir) + Len(medium_priority)
               < MaxFindings
        /\ IF is_duplicate(url, state, dedup_hours, now)
           THEN UNCHANGED <<state, high_priority, medium_priority>>
           ELSE /\ high_priority' =
                     IF priority = "high" THEN Append(high_priority, url)
                     ELSE high_priority
                /\ medium_priority' =
                     IF priority = "medium" /\ priority # "high"
                     THEN Append(medium_priority, url) ELSE medium_priority
                /\ state' = IF priority \in {"high", "medium"}
                            THEN mark_as_seen(url, state, now) ELSE state
  /\ last' = [url |-> url, rating |-> rating,
              seen_within |-> SeenWithin(url, state, dedup_hours, now),
              bucketed |-> high_priority' # high_priority
                           \/ medium_priority' # medium_priority]
  /\ disposed' = IF ~dry_run /\ (high_priority' # high_priority
                                   \/ medium_priority' # medium_priority)
                  THEN [disposed EXCEPT ![url] =
                          [at |-> now, topic_id |-> Topics[Head(topics_to_check)].id]]
                  ELSE disposed
  /\ UNCHANGED <<now, settings, persisted, pc, dry_run, topics_to_check, search,
                 saves, pre, selected, entered, raised, rl, queueHistory, runs,
                 dedupHistory, procs>>

\* monitor_topic, one pass of the loop over results: the next result has this
\* url and its content is of this rating (search_topic returns at most cap
\* results).
ScanResult(url, rating, cap) ==
  /\ pc = "scan"
  /\ HasNext(url, cap)
  /\ ~is_duplicate_raises(url, state)
  /\ nresults' = nresults + 1
  /\ LET priority == score_result(rating, Topics[Head(topics_to_check)])
     IN /\ priority = "medium" =>
             CountFindings(findingsDir, DOMAIN findingsDir) + Len(medium_priority)
               < MaxFindings
        /\ IF is_duplicate(url, state, dedup_hours, now)
           THEN UNCHANGED <<state, high_priority, medium_priority>>
           ELSE /\ high_priority' =
                     IF priority = "high" THEN Append(high_priority, url)
                     ELSE high_priority
                /\ medium_priority' =
                     IF priority = "medium" /\ priority # "high"
                     THEN Append(medium_priority, url) ELSE medium_priority
                /\ state' = mark_as_seen(url, state, now)
  /\ last' = [url |-> url, rating |-> rating,
              seen_within |-> SeenWithin(url, state, dedup_hours, now),
              bucketed |-> high_priority' # high_priority
                           \/ medium_priority' # medium_priority]
  /\ disposed' = IF ~dry_run /\ (high_priority' # high_priority
                                   \/ medium_priority' # medium_priority)
                  THEN [disposed EXCEPT ![url] =
                          [at |-> now, topic_id |-> Topics[Head(topics_to_check)].id]]
                  ELSE disposed
  /\ UNCHANGED <<now, settings, persisted, pc, dry_run, topics_to_check, search,
                 saves, pre, selected, entered, raised, rl, queueHistory, runs,
                 dedupHistory, procs>>

\* monitor_topic: the loop over results ends.
ScanDone ==
  /\ pc = "scan"
  /\ search # "not_a_list"
  /\ search = "failed" /\ dry_run => nresults = 1
  /\ pc' = "dispose"
  /\ search' = IF search = "results" /\ nresults = 0 THEN "empty" ELSE search
  /\ last' = NoLast
  /\ UNCHANGED <<now, settings, persisted, dry_run, state, topics_to_check, nresults,
                 high_priority, medium_priority, saves, pre, selected, entered,
                 raised, rl, queueHistory, runs, dedupHistory, procs, disposed>>

\* The clock readings of n calls of datetime.now(), the clock ticking once after
\* the j-th.
Reads(n, j) == [i \in 1..n |-> IF i <= j THEN now ELSE now + 1]

\* monitor_topic, one pass of the loop over high_priority: the rate limits are
\* checked, the alert is sent and the counter incremented.
AlertStep(j) ==
  /\ pc = "dispose"
  /\ high_priority # <<>>
  /\ LET topic == Topics[Head(topics_to_check)]
         url == Head(high_priority)
         n == Len(topic.channels)
         permitted == check_rate_limits(topic, state, settings)
     IN /\ j \in 1..n
        /\ rl' = [topic_id |-> topic.id,
                  alerts_today |-> GetNum(state.topics[topic.id].alerts_today, 0),
                  total |-> total_alerts_today(state), permitted |-> permitted]
        /\ IF permitted /\ ~dry_run
           THEN /\ j < n => now < MaxClock
                /\ queueFile' = send_alert(queueFile, topic, url, dry_run, Reads(n, j))
                /\ now' = Reads(n, j)[n]
                /\ state' = IncrementAlerts(state, topic.id)
           ELSE /\ j = n
                /\ queueFile' = IF permitted
                                THEN send_alert(queueFile, topic, url, dry_run, Reads(n, j))
                                ELSE queueFile
                /\ UNCHANGED <<now, state>>
        /\ dropped' = IF ~permitted /\ ~dry_run
                       THEN [dropped EXCEPT ![url] =
                               [marked |-> FromIsoFormat(state.url_hash_map[hash_url(url)]),
                                run |-> runs]]
                       ELSE dropped
  /\ high_priority' = Tail(high_priority)
  /\ UNCHANGED <<settings, stateFile, findingsDir, pc, dry_run, topics_to_check,
                 search, nresults, medium_priority, saves, pre, selected, entered, raised,
                 last, queueHistory, runs, seenAt, dupQuery, dueQuery, procs, disposed>>

\* The findings of the medium-priority results, as monitor_topic builds them.
FindingsOf(medium, t) == [i \in DOMAIN medium |-> [url |-> medium[i], timestamp |-> IsoFormat(t)]]

\* monitor_topic, after the loop over high_priority: the findings are saved and
\* the topic's state is updated; main goes on to the next topic.
FinishTopic ==
  /\ pc = "dispose"
  /\ high_priority = <<>>
  /\ LET topic == Topics[Head(topics_to_check)]
     IN IF dry_run
        THEN UNCHANGED <<findingsDir, state>>
        ELSE /\ findingsDir' = SaveFindings(findingsDir, topic.id, DateStr(now),
                                  FindingsOf(medium_priority, now), Len(medium_priority))
             /\ state' = UpdateTopicState(state, topic.id, nresults,
                                          Len(medium_priority), now)
  /\ topics_to_check' = Tail(topics_to_check)
  /\ pc' = "loop"
  /\ nresults' = 0
  /\ medium_priority' = <<>>
  /\ UNCHANGED <<now, settings, queueFile, stateFile, dry_run, search,
                 high_priority, saves, pre, selected, entered, raised, last, rl,
                 queueHistory, runs, dedupHistory, procs, disposed>>

\* monitor_topic raises and nothing catches it: the run ends there.
MonitorTopicRaisesUncaught(k) ==
  /\ pc \in {"scan", "dispose"}
  /\ k = 0
  /\ raised' = raised \cup {Head(topics_to_check)}
  /\ pc' = "done"
  /\ last' = NoLast
  /\ rl' = NoRl
  /\ UNCHANGED <<now, settings, persisted, locals, saves, pre, selected, entered,
                 queueHistory, runs, dedupHistory, procs, disposed>>

\* monitor_topic raises and main's handler catches it: in the loop over results
\* (is_duplicate, score_result); in send_alert, after k channels were queued; in
\* save_finding, after k findings were saved.
MonitorTopicRaises(k) ==
  /\ pc \in {"scan", "dispose"}
  /\ LET topic == Topics[Head(topics_to_check)]
     IN /\ CASE pc = "scan" ->
                  /\ k = 0
                  /\ \/ search \in {"results", "not_a_list"}
                     \/ search = "failed" /\ dry_run /\ nresults = 0
                  /\ UNCHANGED <<queueFile, findingsDir>>
             [] pc = "dispose" /\ high_priority # <<>> ->
                  /\ k < Len(topic.channels)
                  /\ k > 0 => ~dry_run /\ check_rate_limits(topic, state, settings)
                  /\ queueFile' = IF k = 0 THEN queueFile
                                  ELSE QueueChannels(queueFile, topic, Head(high_priority),
                                                     k, Reads(k, k))
                  /\ UNCHANGED findingsDir
             [] OTHER ->
                  /\ k < Len(medium_priority)
                  /\ k > 0 => ~dry_run
                  /\ findingsDir' = SaveFindings(findingsDir, topic.id, DateStr(now),
                                                 FindingsOf(medium_priority, now), k)
                  /\ UNCHANGED queueFile
        /\ raised' = raised \cup {Head(topics_to_check)}
  /\ topics_to_check' = Tail(topics_to_check)
  /\ pc' = "loop"
  /\ nresults' = 0
  /\ high_priority' = <<>>
  /\ medium_priority' = <<>>
  /\ last' = NoLast
  /\ rl' = NoRl
  /\ UNCHANGED <<now, settings, stateFile, dry_run, state, search, saves, pre,
                 selected, entered, queueHistory, runs, dedupHistory, procs, disposed>>

\* main, after the loop over topics_to_check: the state is saved unless dry_run.
SaveState ==
  /\ pc = "loop"
  /\ topics_to_check = <<>>
  /\ IF dry_run
     THEN UNCHANGED <<stateFile, saves>>
     ELSE /\ stateFile' = [kind |-> "json", data |-> state]
          /\ saves' = saves + 1
  /\ pc' = "done"
  /\ UNCHANGED <<now, settings, queueFile, findingsDir, locals, pre, selected,
                 entered, raised, last, rl, queueHistory, runs, dedupHistory, procs, disposed>>

\* main, save_state: the process is interrupted, or json.dump fails, after
\* open(..., 'w') has truncated the state file and before the document is
\* written out; the process ends.
SaveStateInterrupted ==
  /\ pc = "loop"
  /\ topics_to_check = <<>>
  /\ ~dry_run
  /\ stateFile' = [kind |-> "corrupt", data |-> DefaultState]
  /\ pc' = "idle"
  /\ ResetLocals
  /\ saves' = 0
  /\ pre' = <<>>
  /\ selected' = <<>>
  /\ entered' = <<>>
  /\ raised' = {}
  /\ last' = NoLast
  /\ rl' = NoRl
  /\ UNCHANGED <<now, settings, queueFile, findingsDir, queueHistory, runs,
                 dedupHistory, procs, disposed>>

\* main: load_state raises on a state file that does not parse; main has no
\* handler around it and the process ends with the error.
MainCrashes ==
  /\ pc = "idle"
  /\ runs < MaxRuns
  /\ load_state_raises(stateFile)
  /\ runs' = runs + 1
  /\ lastOp' = [NoOp EXCEPT !.op = "load_state_raised"]
  /\ UNCHANGED <<now, settings, persisted, pc, locals, runHistory, emitted, agent,
                 issued, dedupHistory, procs, disposed>>

\* The process of the run ends.
Exit ==
  /\ pc = "done"
  /\ pc' = "idle"
  /\ ResetLocals
  /\ saves' = 0
  /\ pre' = <<>>
  /\ selected' = <<>>
  /\ entered' = <<>>
  /\ raised' = {}
  /\ last' = NoLast
  /\ rl' = NoRl
  /\ UNCHANGED <<now, settings, persisted, queueHistory, runs, dedupHistory, procs, disposed>>

\* ----------------------------------------------------------- specification
Priorities == {"high", "medium", "low"}

UnknownId == Hex12(Md5Hex(<<>>))

\* The queue commands alone: config.py's queue as its callers may drive it.
NextQueue ==
  \/ Tick
  \/ \E url \in URLS, ts \in Timestamps :
       /\ ts # NoStr => FromIsoFormat(ts) <= now
       /\ QueueAlertCall(url, ts)
  \/ OutputJsonForAgent
  \/ \E id \in QueueIds(queueFile) \cup {UnknownId} : MarkSentCall(id)
  \/ MarkAllSentCall
  \/ \E hours \in 1..MaxAge : ClearOldCall(hours)
  \/ QueueWriteInterrupted

SpecQueue == Init /\ [][NextQueue]_vars

\* The monitoring runs, one at a time.
NextRun ==
  \/ \E dry \in BOOLEAN, force \in BOOLEAN, arg_topic \in {""} \cup TopicIds,
        arg_frequency \in {"", "hourly", "daily", "weekly"} :
       Main(dry, force, arg_topic, arg_frequency)
  \/ \E outcome \in SearchOutcomes : EnterTopic(outcome)
  \/ \E url \in URLS, rating \in Priorities : ScanResult(url, rating, MaxResults)
  \/ ScanDone
  \/ \E j \in 1..2 : AlertStep(j)
  \/ FinishTopic
  \/ \E k \in 0..MaxResults : MonitorTopicRaises(k)
  \/ SaveState
  \/ Exit

Next ==
  \/ Tick
  \/ NextRun

Spec == Init /\ [][Next]_vars

\* Forced runs of one topic, with one result each, and the delivery agent's
\* commands between them.
NextDelivery ==
  \/ Tick
  \/ \E arg_topic \in TopicIds : Main(FALSE, TRUE, arg_topic, "")
  \/ \E outcome \in SearchOutcomes : EnterTopic(outcome)
  \/ \E url \in URLS, rating \in {"high", "low"} : ScanResult(url, rating, 1)
  \/ ScanDone
  \/ \E j \in 1..2 : AlertStep(j)
  \/ FinishTopic
  \/ SaveState
  \/ Exit
  \/ OutputJsonForAgent
  \/ \E id \in emitted \cap QueueIds(queueFile) : MarkSentCall(id)
  \/ MarkAllSentCall

SpecDelivery == Init /\ [][NextDelivery]_vars

\* Forced runs of one topic, with batches of up to MaxBatch results, under the
\* default alert limits or the explicit ones.
NextBatch ==
  \/ Tick
  \/ TickInRun
  \/ \E dry \in BOOLEAN, arg_topic \in TopicIds : Main(dry, TRUE, arg_topic, "")
  \/ \E outcome \in SearchOutcomes : EnterTopic(outcome)
  \/ \E url \in URLS, rating \in Priorities : ScanResult(url, rating, MaxBatch)
  \/ ScanDone
  \/ \E j \in 1..2 : AlertStep(j)
  \/ FinishTopic
  \/ MonitorTopicRaises(0)
  \/ SaveState
  \/ Exit

InitBatch == \E stg \in {DefaultLimitSettings, ExplicitSettings} : InitWith(stg)

SpecBatch == InitBatch /\ [][NextBatch]_vars

\* The deduplication filter alone, queried for windows of up to MaxWindow hours.
NextDedup ==
  \/ Tick
  \/ \E url \in URLS : MarkAsSeenCall(url)
  \/ \E url \in URLS, w \in 0..MaxWindow : IsDuplicateCall(url, w)

SpecDedup == Init /\ [][NextDedup]_vars

\* The deduplication filter on state documents that may hold malformed entries.
NextMalformed ==
  \/ NextDedup
  \/ \E url \in URLS : LoadMalformedEntry(url)
  \/ \E url \in URLS, w \in 0..MaxWindow : IsDuplicateRaisesCall(url, w)

SpecMalformed == Init /\ [][NextMalformed]_vars

\* Forced runs of one topic, with one result each, the agent's commands between
\* them, and writes that are cut short.
NextFaults ==
  \/ NextDelivery
  \/ QueueWriteInterrupted
  \/ SaveStateInterrupted
  \/ MainCrashes

SpecFaults == Init /\ [][NextFaults]_vars

\* The due check alone, for the three frequencies.
NextDue ==
  \/ \E t \in DuePoints : Elapse(t)
  \/ \E topic_id \in TopicIds : CheckpointCall(topic_id)
  \/ \E topic_id \in TopicIds, frequency \in {"hourly", "daily", "weekly"},
        force \in BOOLEAN : ShouldCheckCall(topic_id, frequency, force)

SpecDue == Init /\ [][NextDue]_vars

\* The selection of main's loop alone, for topics with and without a frequency.
Frequencies == {"hourly", "daily", "weekly"}

NextSelect ==
  \/ \E t \in DuePoints : Elapse(t)
  \/ \E topic_id \in TopicIds : CheckpointCall(topic_id)
  \/ \E topic_id \in TopicIds, frequency \in {""} \cup Frequencies,
        arg_frequency \in {""} \cup Frequencies, force \in BOOLEAN :
       SelectCall(topic_id, frequency, arg_frequency, force)

SpecSelect == Init /\ [][NextSelect]_vars

\* Runs of one topic or of all, forced, a day or a week apart, with results of
\* high priority.
NextDays ==
  \/ Tick
  \/ TickInRun
  \/ \E t \in {DAILY_HOURS, WEEKLY_HOURS} : Elapse(t)
  \/ \E dry \in BOOLEAN, arg_topic \in {""} \cup TopicIds : Main(dry, TRUE, arg_topic, "")
  \/ EnterTopic("results")
  \/ \E url \in URLS : ScanResult(url, "high", MaxResults)
  \/ ScanDone
  \/ \E j \in 1..2 : AlertStep(j)
  \/ FinishTopic
  \/ SaveState
  \/ Exit

SpecDays == Init /\ [][NextDays]_vars

\* Two invocations at a time on the same documents, with no lock between them.
NextOverlap ==
  \/ Tick
  \/ \E p \in Procs, url \in URLS : BeginQueueAlert(p, url)
  \/ \E p \in Procs, id \in QueueIds(queueFile) : BeginMarkSent(p, id)
  \/ \E p \in Procs, url \in URLS : BeginRun(p, url)
  \/ \E p \in Procs : FinishWrite(p)
  \/ ProcsEnd

SpecOverlap == Init /\ [][NextOverlap]_vars

\* ------------------------------------------------------------------ claims
\* C1: whatever queue_alert, mark_alert_sent and clear_old_alerts calls are
\* made, starting from an empty queue, no two entries of the alert queue have
\* the same id.
QueueIdsAreUnique ==
  \A i, j \in DOMAIN queueFile.data :
    queueFile.data[i].id = queueFile.data[j].id => i = j

\* C1: queue_alert was just called a second time for a (url, timestamp) whose
\* entry is in a queue of several entries.
RepeatedCallOnFilledQueue ==
  /\ lastOp.op = "queue_alert"
  /\ issued[<<lastOp.url, lastOp.ts>>].calls = 2
  /\ Len(queueFile.data) >= 2

\* C2: for every (url, timestamp) queue_alert was called with, once or more,
\* and whose entry was not purged since, the calls all returned one id and the
\* queue holds exactly one entry with that id.
QueueAlertIsIdempotent ==
  \A c \in DOMAIN issued :
    issued[c].calls >= 1 =>
      /\ Cardinality(issued[c].ids) = 1
      /\ \A id \in issued[c].ids :
           Cardinality({i \in DOMAIN queueFile.data : queueFile.data[i].id = id}) = 1

\* C2: queue_alert was just called a second time for a (url, timestamp) whose
\* entry had been marked sent in between, at a later clock reading.
SecondCallAfterMarkSent ==
  /\ lastOp.op = "queue_alert"
  /\ issued[<<lastOp.url, lastOp.ts>>].calls = 2
  /\ now > 0
  /\ \E i \in DOMAIN queueFile.data :
       /\ queueFile.data[i].id \in issued[<<lastOp.url, lastOp.ts>>].ids
       /\ queueFile.data[i].sent

\* C3: the id of every entry of the alert queue is the hash of the url and the
\* timestamp stored in that entry.
StoredIdIsHashOfStoredFields ==
  \A i \in DOMAIN queueFile.data :
    queueFile.data[i].id =
      Hex12(Md5Hex(queueFile.data[i].url \o queueFile.data[i].timestamp))

\* The limits in force: the settings' or the defaults.
MaxPerDay == GetNum(settings.max_alerts_per_day, DEFAULT_MAX_ALERTS_PER_DAY)

MaxPerTopicPerDay ==
  GetNum(settings.max_alerts_per_topic_per_day, DEFAULT_MAX_ALERTS_PER_TOPIC_PER_DAY)

WithinLimits(st) ==
  /\ \A id \in TopicIds : GetNum(st.topics[id].alerts_today, 0) <= MaxPerTopicPerDay
  /\ total_alerts_today(st) <= MaxPerDay

\* C4: through any sequence of monitoring runs, one after the other, under
\* fixed settings, the alerts_today of every topic is at most
\* max_alerts_per_topic_per_day and the sum of alerts_today over the topics is
\* at most max_alerts_per_day, in the state in memory (so right after every
\* increment that follows a queued alert) and in the state file.
AlertsStayWithinLimits ==
  /\ WithinLimits(state)
  /\ WithinLimits(load_state(stateFile))

\* C4: in a second run, with the saved counters at the daily limit and the
\* topic below its own, a further alert was refused.
RefusedAtDailyLimitInSecondRun ==
  /\ runs = 2
  /\ ~dry_run
  /\ total_alerts_today(load_state(stateFile)) = MaxPerDay
  /\ rl.topic_id # ""
  /\ ~rl.permitted
  /\ rl.alerts_today < MaxPerTopicPerDay

\* C5, the verdict: check_rate_limits returned false exactly when the topic's
\* alerts_today was at or above max_alerts_per_topic_per_day or the sum over
\* all topics at or above max_alerts_per_day.
RateLimitVerdict ==
  rl.topic_id # "" =>
    (~rl.permitted <=>
       (rl.alerts_today >= MaxPerTopicPerDay \/ rl.total >= MaxPerDay))

\* C5, read-only: a pass of the alert loop in which check_rate_limits returned
\* false changes neither the state in memory nor any persisted document.
RefusalChangesNothing ==
  (pc = "dispose" /\ pc' = "dispose" /\ high_priority' # high_priority
     /\ ~rl'.permitted)
    => (state' = state /\ persisted' = persisted)

\* C5: check_rate_limits is read-only and returns false iff the topic's
\* alerts_today >= max_alerts_per_topic_per_day or the sum of alerts_today
\* over all topics >= max_alerts_per_day.
RateLimitDecision == []RateLimitVerdict /\ [][RefusalChangesNothing]_vars

\* C5: under the default limits (2 per topic, 5 in all), a third high-priority
\* result of one batch was refused for its topic after two were accepted, the
\* sum being below 5.
ThirdOfBatchRefused ==
  /\ settings = DefaultLimitSettings
  /\ pc = "dispose"
  /\ nresults = 3
  /\ rl.topic_id # ""
  /\ ~rl.permitted
  /\ rl.alerts_today = 2
  /\ rl.total < 5
  /\ GetNum(load_state(stateFile).topics[rl.topic_id].alerts_today, 0) = 0

\* C6: is_duplicate(u, state, w) is true when u was marked seen at a time t
\* and the query time is in [t, t+w); it is false at or after t+w, and false
\* for a URL never marked seen.
DuplicateWithinWindowOnly ==
  dupQuery.url # NoStr =>
    (dupQuery.result <=>
       /\ dupQuery.seen # NoKey
       /\ dupQuery.seen <= dupQuery.at
       /\ dupQuery.at < dupQuery.seen + dupQuery.window)

\* C6: a URL marked seen was queried exactly when its window of w > 0 hours
\* ended, and is_duplicate returned false.
QueriedAtEndOfWindow ==
  /\ dupQuery.url # NoStr
  /\ dupQuery.seen # NoKey
  /\ dupQuery.window > 0
  /\ dupQuery.at = dupQuery.seen + dupQuery.window
  /\ ~dupQuery.result

\* The URLs of the results the scan loop kept for alerts or findings.
Bucketed == high_priority \o medium_priority

\* C7: in a monitoring cycle a result whose URL was seen within the
\* deduplication window goes to neither the alerts nor the findings, and of two
\* results of one batch with the same URL only the first does: no URL is kept
\* twice.
DuplicatesProduceNothing ==
  /\ last.seen_within => ~last.bucketed
  /\ pc = "scan" =>
       \A i, j \in DOMAIN Bucketed : Bucketed[i] = Bucketed[j] => i = j

\* C7: the second result of a batch had the URL of the first, which was kept
\* for an alert, and was skipped.
SecondOfBatchSkipped ==
  /\ pc = "scan"
  /\ nresults = 2
  /\ high_priority = <<last.url>>
  /\ last.seen_within
  /\ ~last.bucketed

\* C8: whatever the monitoring runs and the agent's commands, the agent
\* confirming only after an emission, every alert with sent = true was
\* emitted for delivery by output_json_for_agent before.
SentOnlyAfterEmission ==
  agent # "violated" =>
    \A i \in DOMAIN queueFile.data :
      queueFile.data[i].sent => queueFile.data[i].id \in emitted

\* C9: an exception in monitor_topic for one topic does not keep main from
\* calling it for the topics after it, and save_state is not called before the
\* last topic is done and exactly once then in a run that is not dry, with the
\* state in memory.
RunSurvivesTopicFailure ==
  /\ pc \in {"loop", "scan", "dispose"} => saves = 0
  /\ pc = "done" =>
       /\ entered = selected
       /\ dry_run => saves = 0
       /\ ~dry_run => saves = 1 /\ stateFile = [kind |-> "json", data |-> state]

\* C9: a run that is not dry has ended; monitor_topic raised for the first of
\* its two topics, was called for the second, and the state was saved once.
SavedAfterFirstTopicFailed ==
  /\ pc = "done"
  /\ ~dry_run
  /\ Len(entered) = 2
  /\ entered[1] \in raised
  /\ entered[2] \notin raised
  /\ saves = 1

\* C10: throughout a dry run, and at its end, the state file, the alert queue
\* file and every findings file are as they were when the run started.
DryRunWritesNothing ==
  (pc # "idle" /\ dry_run) => persisted = pre

\* C10: a dry run, started with alerts in the queue from an earlier run, has
\* ended after an alert of its last topic passed the rate limits.
DryRunEndedAfterAlert ==
  /\ pc = "done"
  /\ dry_run
  /\ queueFile.data # <<>>
  /\ rl.topic_id # ""
  /\ rl.permitted

\* The topic monitor_topic was last called for.
LastEntered == Topics[entered[Len(entered)]]

\* The queue holds no alert of the topic, and the findings files of the topic
\* no finding, that was not there when the run started.
NothingNewFor(id) ==
  /\ \A i \in DOMAIN queueFile.data :
       queueFile.data[i].topic_id = id =>
         \E j \in DOMAIN pre[1].data : pre[1].data[j] = queueFile.data[i]
  /\ \A d \in Dates : findingsDir[<<id, d>>] = pre[3][<<id, d>>]

\* C11: when search_topic returned an empty list, or the search failed (a
\* timeout, a non-zero exit, malformed output), a run that is not dry leaves
\* the topic with last_check = now and last_results_count = 0, and with no new
\* alert and no new finding, and goes on to the next topic.
NoResultsStillCheckpoints ==
  (pc = "loop" /\ entered # <<>> /\ ~dry_run
     /\ search \in {"empty", "failed", "not_a_list"})
    => /\ state.topics[LastEntered.id].last_check = IsoFormat(now)
       /\ state.topics[LastEntered.id].last_results_count = 0
       /\ NothingNewFor(LastEntered.id)

\* C12: for a topic with importance_threshold = "high", a result whose content
\* rates medium or low is kept neither for an alert nor for a finding, and the
\* topic never has a result kept for a finding.
HighThresholdKeepsOnlyHigh ==
  (pc \in {"scan", "dispose"}
     /\ Topics[Head(topics_to_check)].importance_threshold = "high")
    => /\ last.rating \in {"medium", "low"} => ~last.bucketed
       /\ medium_priority = <<>>

\* C12: a result rated medium, of a URL not seen before, was examined for a
\* topic with importance_threshold = "high", which had kept a result rated
\* high, and was dropped.
MediumDroppedByHighThreshold ==
  /\ pc = "scan"
  /\ Topics[Head(topics_to_check)].importance_threshold = "high"
  /\ last.rating = "medium"
  /\ ~last.seen_within
  /\ ~last.bucketed
  /\ high_priority # <<>>

\* C13: should_check_topic returns true when force is set; else true for a
\* topic with no last_check; else true exactly when now - last_check is at
\* least the interval of the topic's frequency: 1 hour for hourly, 24 hours for
\* daily, 7 days for weekly.
DueExactlyAfterInterval ==
  dueQuery.at # NoKey =>
    LET hours == CASE dueQuery.frequency = "hourly" -> 1
                   [] dueQuery.frequency = "daily" -> 24
                   [] dueQuery.frequency = "weekly" -> 7 * 24
    IN dueQuery.result <=>
         \/ dueQuery.force
         \/ dueQuery.last_check = NoStr
         \/ dueQuery.at - dueQuery.last_check[1] >= hours

\* C13: a weekly topic checked at hour 0 was asked about, without force,
\* exactly 7 days later, and was due.
WeeklyDueAfterSevenDays ==
  /\ dueQuery.frequency = "weekly"
  /\ ~dueQuery.force
  /\ dueQuery.last_check = <<0>>
  /\ dueQuery.at = 168
  /\ dueQuery.result

\* A step of process_alerts.py with this command (the clock stands still
\* during a command).
QueueCommand(op) == lastOp'.op = op /\ now' = now /\ pc = "idle" /\ pc' = "idle"

\* An entry whose timestamp is older than the cutoff.
OlderThan(alert, cutoff) ==
  /\ IsIsoString(alert.timestamp)
  /\ FromIsoFormat(alert.timestamp) < cutoff

\* C14: clear_old_alerts(h) removes exactly the entries whose timestamp is
\* older than now - h hours, sent or not, keeps every entry whose timestamp is
\* no timestamp, and keeps the order and the content of the entries it keeps.
ClearRemovesExactlyTheOld ==
  [][QueueCommand("clear_old_alerts") =>
       queueFile'.data =
         SelectSeq(queueFile.data, LAMBDA a : ~OlderThan(a, now - lastOp'.hours))]_vars

\* C15: mark_alert_sent(id) sets sent = true and sent_at = now on the entry
\* with that id and changes no other entry, nor the order or the length of the
\* queue; with no entry of that id the queue is as it was.
MarkSentTouchesOneEntry ==
  [][QueueCommand("mark_alert_sent") =>
       /\ Len(queueFile'.data) = Len(queueFile.data)
       /\ \A i \in DOMAIN queueFile.data :
            queueFile'.data[i] =
              IF queueFile.data[i].id = lastOp'.id
              THEN [queueFile.data[i] EXCEPT !.sent = TRUE, !.sent_at = IsoFormat(now)]
              ELSE queueFile.data[i]]_vars

\* C15: mark_alert_sent was just called, at a later clock reading, for one
\* entry of a queue of several: that entry is sent, another is not.
OneOfSeveralMarked ==
  /\ lastOp.op = "mark_alert_sent"
  /\ now > 0
  /\ \E i, j \in DOMAIN queueFile.data :
       /\ queueFile.data[i].id = lastOp.id
       /\ queueFile.data[i].sent
       /\ queueFile.data[i].sent_at = IsoFormat(now)
       /\ ~queueFile.data[j].sent

\* The list of ids is that of the unsent entries of the queue, in queue order.
IdsOfUnsent(ret, queue) ==
  /\ \A k \in DOMAIN ret :
       \E i \in DOMAIN queue : queue[i].id = ret[k] /\ ~queue[i].sent
  /\ \A i \in DOMAIN queue :
       ~queue[i].sent => \E k \in DOMAIN ret : ret[k] = queue[i].id
  /\ \A k1, k2 \in DOMAIN ret, i1, i2 \in DOMAIN queue :
       (k1 < k2 /\ queue[i1].id = ret[k1] /\ queue[i2].id = ret[k2]) => i1 < i2

\* C16: get_pending_alerts returns exactly the entries with sent = false, in
\* queue order, leaves the queue file as it is, and returns the empty list when
\* the file is missing or does not parse.
PendingAreTheUnsent ==
  [][QueueCommand("output_json_for_agent") =>
       /\ queueFile' = queueFile
       /\ queueFile.kind # "json" => lastOp'.ret = <<>>
       /\ queueFile.kind = "json" => IdsOfUnsent(lastOp'.ret, queueFile.data)]_vars

\* C16: get_pending_alerts has just returned the one unsent entry of a queue
\* of two, the other being sent.
OnePendingOfTwo ==
  /\ lastOp.op = "output_json_for_agent"
  /\ Len(lastOp.ret) = 1
  /\ Len(queueFile.data) = 2
  /\ \E i \in DOMAIN queueFile.data : queueFile.data[i].sent

\* C17: a persisted document that does not parse is never fatal. A run started
\* on such a state file goes on with the default state; on such a queue file
\* the pending list is empty and queue_alert starts a new queue.
CorruptDocumentsReadAsEmpty ==
  [][/\ (load_state_raises(stateFile) /\ runs' # runs)
          => (pc' = "loop" /\ state' = DefaultState)
     /\ (queueFile.kind = "corrupt" /\ QueueCommand("output_json_for_agent"))
          => lastOp'.ret = <<>>
     /\ (queueFile.kind = "corrupt" /\ pc = "dispose" /\ queueFile' # queueFile)
          => queueFile'.kind = "json"]_vars

\* C18: when the dedup map holds a malformed timestamp for a URL, is_duplicate
\* does not fail and returns false (the URL is treated as not seen).
MalformedEntryReadsAsUnseen ==
  (dupQuery.url # NoStr /\ dupQuery.stored # NoStr /\ ~IsIsoString(dupQuery.stored))
    => (~dupQuery.raised /\ ~dupQuery.result)

\* C19: every persisted document is at every moment a complete one, the
\* previous or the new: no write leaves a file that is cut short or empty.
PersistedDocumentsAreComplete ==
  /\ queueFile.kind \in {"missing", "json"}
  /\ stateFile.kind \in {"missing", "json"}

\* C20: a run is all-or-nothing per topic.  When a run that is not dry has ended,
\* every topic for which monitor_topic raised has in the saved state the entry
\* it had when the run started (alerts_today, last_check, findings_count), the
\* queue holds no new alert of it and its findings files no new finding; and
\* when monitor_topic raised for every topic of the run, the saved dedup map is
\* the one the run started with.
RaisedTopicLeavesNoTrace ==
  (pc = "done" /\ ~dry_run /\ stateFile.kind = "json") =>
    /\ \A k \in raised :
         /\ stateFile.data.topics[Topics[k].id] = load_state(pre[2]).topics[Topics[k].id]
         /\ NothingNewFor(Topics[k].id)
    /\ (\A i \in DOMAIN entered : entered[i] \in raised) =>
         stateFile.data.url_hash_map = load_state(pre[2]).url_hash_map

\* C21: every result examined that is not a duplicate is marked seen with the
\* current time, whatever its priority (a low one too); a high-priority result
\* that check_rate_limits refuses stays marked and adds nothing to the queue;
\* and a URL refused in a run that is not dry is, whenever it is examined again
\* inside the deduplication window of its mark, skipped: it is put in no bucket.
ExaminedResultIsMarked ==
  [][(pc = "scan" /\ nresults' = nresults + 1
        /\ ~is_duplicate(last'.url, state, dedup_hours, now))
       => state'.url_hash_map[hash_url(last'.url)] = IsoFormat(now)]_vars

RefusedResultStaysMarked ==
  [][(pc = "dispose" /\ high_priority # <<>> /\ high_priority' = Tail(high_priority)
        /\ ~check_rate_limits(Topics[Head(topics_to_check)], state, settings))
       => /\ queueFile' = queueFile
          /\ state' = state
          /\ IsIsoString(state.url_hash_map[hash_url(Head(high_priority))])]_vars

RefusedResultIsNotRetried ==
  /\ [](\A u \in URLS :
          (last.url = u /\ dropped[u] # NoDrop /\ now < dropped[u].marked + dedup_hours)
            => ~last.bucketed)
  /\ ExaminedResultIsMarked
  /\ RefusedResultStaysMarked

\* C21: a high-priority result was refused by check_rate_limits in the first
\* run; in the second run, inside the window, its URL came up again as a
\* high-priority result and was skipped.
RefusedUrlSkippedInSecondRun ==
  /\ last.url # NoStr
  /\ last.rating = "high"
  /\ dropped[last.url] # NoDrop
  /\ dropped[last.url].run < runs
  /\ now < dropped[last.url].marked + dedup_hours
  /\ ~last.bucketed
  /\ Topics[Head(topics_to_check)].importance_threshold = "high"

\* alerts_today of a topic in a state document.
AlertsToday(st, id) == GetNum(st.topics[id].alerts_today, 0)

\* The queue entries of a topic.
EntriesOf(file, id) == SelectSeq(file.data, LAMBDA a : a.topic_id = id)

\* C22: alerts_today of a topic never decreases, in the saved state or in the
\* state a run holds in memory (which a run loads from the saved one); while a
\* run holds a state in which a topic's alerts_today has reached the per-topic
\* cap no alert of that topic is added to the queue, and while the sum has
\* reached the global cap no alert is added at all, however much time has
\* passed.
AlertsTodayOnlyGrows ==
  [][/\ \A id \in TopicIds :
          /\ AlertsToday(load_state(stateFile'), id) >= AlertsToday(load_state(stateFile), id)
          /\ (pc # "idle" /\ pc' # "idle") =>
                AlertsToday(state', id) >= AlertsToday(state, id)
          /\ (pc = "idle" /\ pc' # "idle") => state' = load_state(stateFile)
          /\ (pc # "idle" /\ AlertsToday(state, id) >= MaxPerTopicPerDay) =>
                EntriesOf(queueFile', id) = EntriesOf(queueFile, id)
     /\ (pc # "idle" /\ total_alerts_today(state) >= MaxPerDay) =>
          queueFile' = queueFile]_vars

\* C22: a day or more after the run that saved a topic's alerts_today at the
\* per-topic cap, a run that is not dry had a high-priority result of the topic
\* refused.
RefusedADayAfterTheCap ==
  /\ runs = 2
  /\ ~dry_run
  /\ now >= DAILY_HOURS
  /\ rl.topic_id # ""
  /\ ~rl.permitted
  /\ AlertsToday(load_state(stateFile), rl.topic_id) >= MaxPerTopicPerDay
  /\ stateFile.data.topics[rl.topic_id].last_check # NoStr
  /\ FromIsoFormat(stateFile.data.topics[rl.topic_id].last_check) < DAILY_HOURS

\* The operation of a process that has written changed the document it loaded.
Effective(p) ==
  LET me == procs[p]
  IN /\ me.phase = "done"
     /\ CASE me.op = "queue_alert" -> me.id \notin QueueIds(me.snapshot)
          [] me.op = "mark_alert_sent" ->
               \E i \in DOMAIN me.snapshot.data :
                 me.snapshot.data[i].id = me.id /\ ~me.snapshot.data[i].sent
          [] OTHER -> TRUE

\* The runs that wrote the state after process p did.
LaterRuns(p) ==
  {q \in Procs : /\ procs[q].phase = "done"
                  /\ procs[q].op = "run"
                  /\ procs[q].order > procs[p].order}

\* The update process p wrote is missing from the persisted document: the alert
\* it enqueued, the sent flag it set, or the dedup entry or the alert count of
\* its run.
Lost(p) ==
  LET me == procs[p]
  IN /\ Effective(p)
     /\ CASE me.op = "queue_alert" -> me.id \notin QueueIds(queueFile)
          [] me.op = "mark_alert_sent" ->
               ~\E i \in DOMAIN queueFile.data :
                  queueFile.data[i].id = me.id /\ queueFile.data[i].sent
          [] OTHER ->
               \/ stateFile.data.url_hash_map[hash_url(me.url)] = NoStr
               \/ AlertsToday(load_state(stateFile), ProcTopic.id)
                    < AlertsToday(load_state(me.snapshot), ProcTopic.id) + 1
                        + Cardinality(LaterRuns(p))

\* The operation of q makes the same update as that of p.
Covers(q, p) ==
  /\ procs[q].op = procs[p].op
  /\ procs[q].op \in {"queue_alert", "mark_alert_sent"}
  /\ procs[q].id = procs[p].id

\* C23: with two invocations on the same documents and no lock, the update of
\* the one that wrote first is missing from the persisted document exactly when
\* the other had read the file before that write and wrote after it (and does
\* not make the same update itself); the update of the last writer, or of an
\* invocation that did not overlap, is never missing.
UpdateLostExactlyByOverlap ==
  \A p \in Procs :
    Effective(p) =>
      (Lost(p) <=>
         \E q \in Procs \ {p} :
           /\ procs[q].phase = "done"
           /\ FileOf(procs[q].op) = FileOf(procs[p].op)
           /\ procs[q].order > procs[p].order
           /\ procs[q].stale
           /\ ~Covers(q, p))

\* C23: a queue_alert and a mark_alert_sent overlapped, and the alert that was
\* enqueued is not in the queue file.
EnqueuedAlertLost ==
  \E p \in Procs, q \in Procs :
    /\ procs[p].op = "queue_alert"
    /\ procs[q].op = "mark_alert_sent"
    /\ procs[q].phase = "done"
    /\ Lost(p)

\* C24: sent_at is set only when sent goes from false to true: mark_alert_sent
\* for an entry that is already sent leaves its sent_at as it was.
SentAtSetOnTransitionOnly ==
  [][QueueCommand("mark_alert_sent") =>
       \A i \in DOMAIN queueFile.data :
         queueFile.data[i].sent =>
           queueFile'.data[i].sent_at = queueFile.data[i].sent_at]_vars

\* monitor_topic sends the alert of the next high-priority result: the rate
\* limits permit it and the run is not dry.
SendsAlert ==
  /\ pc = "dispose"
  /\ pc' = "dispose"
  /\ high_priority # <<>>
  /\ high_priority' = Tail(high_priority)
  /\ ~dry_run
  /\ check_rate_limits(Topics[Head(topics_to_check)], state, settings)

\* The queue has grown by one entry per channel of the topic, in channel order,
\* each for the url and with its channel.
OnePerChannel(before, after, topic, url) ==
  /\ Len(after) = Len(before) + Len(topic.channels)
  /\ \A i \in DOMAIN before : after[i] = before[i]
  /\ \A k \in DOMAIN topic.channels :
       /\ after[Len(before) + k].channel = topic.channels[k]
       /\ after[Len(before) + k].url = url
       /\ after[Len(before) + k].topic_id = topic.id

\* C25: for a high-priority result that the rate limits permit, in a run that
\* is not dry, send_alert adds exactly one queue entry per channel of the
\* topic, in channel order; no channel's alert is dropped.
EveryChannelGetsItsAlert ==
  [][SendsAlert =>
       OnePerChannel(queueFile.data, queueFile'.data, Topics[Head(topics_to_check)],
                     Head(high_priority))]_vars

\* monitor_topic returns for the current topic, in a run that is not dry.
CompletesTopic ==
  /\ pc = "dispose"
  /\ pc' = "loop"
  /\ ~dry_run
  /\ Head(topics_to_check) \notin raised'

\* C26: in a run that is not dry, a result the scorer rates medium that is not
\* a duplicate is put on the list of findings whatever the alert counters are;
\* when the topic completes the findings of the list are appended, in order, to
\* the bucket of the topic and the date, after the findings already there, no
\* other bucket changes, and findings_count has grown by the length of the
\* list; findings_count never decreases.
FindingsAreAppended ==
  [][/\ (pc = "scan" /\ nresults' = nresults + 1
          /\ score_result(last'.rating, Topics[Head(topics_to_check)]) = "medium"
          /\ ~is_duplicate(last'.url, state, dedup_hours, now))
         => medium_priority' = Append(medium_priority, last'.url)
     /\ CompletesTopic =>
          LET id == Topics[Head(topics_to_check)].id
              bucket == <<id, DateStr(now)>>
          IN /\ findingsDir'[bucket] =
                  findingsDir[bucket] \o FindingsOf(medium_priority, now)
             /\ \A b \in DOMAIN findingsDir \ {bucket} : findingsDir'[b] = findingsDir[b]
             /\ state'.topics[id].findings_count =
                  GetNum(state.topics[id].findings_count, 0) + Len(medium_priority)
     /\ \A id \in TopicIds :
          /\ GetNum(load_state(stateFile').topics[id].findings_count, 0)
               >= GetNum(load_state(stateFile).topics[id].findings_count, 0)
          /\ (pc # "idle" /\ pc' # "idle") =>
               GetNum(state'.topics[id].findings_count, 0)
                 >= GetNum(state.topics[id].findings_count, 0)]_vars

\* C26: a topic whose alerts_today is at the per-topic cap has completed in a
\* second run that is not dry; its bucket holds the finding of the first run
\* and, after it, the one of this run, and its findings_count is 2.
SecondFindingSavedAtTheCap ==
  /\ pc = "loop"
  /\ ~dry_run
  /\ runs = 2
  /\ entered # <<>>
  /\ entered[Len(entered)] \notin raised
  /\ AlertsToday(state, LastEntered.id) >= MaxPerTopicPerDay
  /\ state.topics[LastEntered.id].findings_count = 2
  /\ LET bucket == findingsDir[<<LastEntered.id, DateStr(now)>>]
     IN /\ Len(bucket) = 2
        /\ bucket[1].timestamp # IsoFormat(now)
        /\ bucket[2].timestamp = IsoFormat(now)

\* C27: the sent flag is monotonic.  No operation leaves an entry that was sent
\* in the queue with sent = false; and queue_alert, called again with the url
\* and timestamp of an entry that is sent, leaves that entry as it was, sent
\* and sent_at included.
SentIsMonotonic ==
  [][\A i \in DOMAIN queueFile.data :
       queueFile.data[i].sent =>
         /\ \A j \in DOMAIN queueFile'.data :
              queueFile'.data[j].id = queueFile.data[i].id => queueFile'.data[j].sent
         /\ (QueueCommand("queue_alert") /\ queueFile.kind = "json") =>
              /\ i \in DOMAIN queueFile'.data
              /\ queueFile'.data[i] = queueFile.data[i]]_vars

\* C27: queue_alert was just called with the url and timestamp of an entry that
\* had been marked sent at an earlier clock reading; the entry is still sent,
\* and another entry of the queue is pending.
SentEntryStaysSentOnRequeue ==
  /\ lastOp.op = "queue_alert"
  /\ \E i, j \in DOMAIN queueFile.data :
       /\ queueFile.data[i].id = Hex12(Md5Hex(GetStr(lastOp.url) \o GetStr(lastOp.ts)))
       /\ queueFile.data[i].sent
       /\ queueFile.data[i].sent_at # NoStr
       /\ FromIsoFormat(queueFile.data[i].sent_at) < now
       /\ ~queueFile.data[j].sent

\* C28: one invocation at a time and a queue file that parses: queue_alert
\* leaves every entry of the queue as and where it was and adds at most one
\* entry, at the end; mark_alert_sent (for one id, or for all pending alerts)
\* leaves the length of the queue and the order of its ids as they were.  Only
\* clear_old_alerts removes entries.
OnlyClearRemovesEntries ==
  [][queueFile.kind # "corrupt" =>
       /\ QueueCommand("queue_alert") =>
            /\ Len(queueFile'.data) \in {Len(queueFile.data), Len(queueFile.data) + 1}
            /\ \A i \in DOMAIN queueFile.data : queueFile'.data[i] = queueFile.data[i]
       /\ (QueueCommand("mark_alert_sent") \/ QueueCommand("mark_all_sent")) =>
            /\ Len(queueFile'.data) = Len(queueFile.data)
            /\ \A i \in DOMAIN queueFile.data :
                 queueFile'.data[i].id = queueFile.data[i].id]_vars

\* C28: queue_alert has just appended a new entry at the end of a queue that
\* holds an entry marked sent before it.
AppendedAfterSentEntry ==
  /\ lastOp.op = "queue_alert"
  /\ Len(queueFile.data) = 2
  /\ queueFile.data[1].sent
  /\ ~queueFile.data[2].sent
  /\ queueFile.data[2].id = Hex12(Md5Hex(GetStr(lastOp.url) \o GetStr(lastOp.ts)))
  /\ issued[<<lastOp.url, lastOp.ts>>].calls = 1

\* C29: the deduplication map is keyed by the URL alone and shared by the
\* topics.  A result is put in a bucket (for an alert or a finding), in any run
\* and for any topic, only if its URL was not put in a bucket, for whatever
\* topic, in a run that is not dry less than dedup_hours before.
OneDispositionPerWindow ==
  [][(pc = "scan" /\ nresults' = nresults + 1
        /\ (high_priority' # high_priority \/ medium_priority' # medium_priority))
       => \/ disposed[last'.url] = NoDisposal
          \/ now >= disposed[last'.url].at + dedup_hours]_vars

\* C29: a URL put in a bucket for one topic came up, inside the window, as a
\* result of another topic that would have been of high priority, and was
\* skipped.
SkippedForAnotherTopic ==
  /\ pc = "scan"
  /\ last.url # NoStr
  /\ last.rating = "high"
  /\ ~last.bucketed
  /\ disposed[last.url] # NoDisposal
  /\ disposed[last.url].topic_id # Topics[Head(topics_to_check)].id
  /\ now < disposed[last.url].at + dedup_hours

\* C30: a topic without a frequency is treated as a daily one throughout: it
\* is due exactly when a daily topic would be (forced, never checked, or checked
\* 24 hours ago or more), and a run restricted to daily topics by --frequency
\* selects it whenever it is due.
NoFrequencyMeansDaily ==
  (dueQuery.at # NoKey /\ dueQuery.frequency = "") =>
    /\ dueQuery.result <=>
         \/ dueQuery.force
         \/ dueQuery.last_check = NoStr
         \/ dueQuery.at - FromIsoFormat(dueQuery.last_check) >= DAILY_HOURS
    /\ dueQuery.arg_frequency = "daily" => (dueQuery.selected <=> dueQuery.result)

====
